---- MODULE Spec2Model ----
(***************************************************************************)
(* A model of the ray tracer of klgraham/ray-tracing-weekend: the sphere   *)
(* intersection, the scene aggregate's closest-hit query, the material     *)
(* scattering and the recursive transport evaluator.                       *)
(*                                                                         *)
(* Numbers.  The program computes in f64.  The model computes in exact     *)
(* rational arithmetic: a number is a pair <<n, d>> in lowest terms with   *)
(* d > 0, and <<1, 0>>, <<-1, 0>> stand for +infinity and -infinity (they  *)
(* are only ever compared, as the bounds of an Interval).  The inputs are  *)
(* drawn from sets on which every square root the code takes is the root   *)
(* of a perfect square, so that no rounding is left out by the model.      *)
(***************************************************************************)
EXTENDS Integers, Sequences, FiniteSets, TLC

\* ------------------------------------------------------------------ f64

Abs(n) == IF n < 0 THEN -n ELSE n

RECURSIVE GCD(_, _)
GCD(a, b) == IF b = 0 THEN a ELSE GCD(b, a % b)

\* The number n/d in lowest terms, d # 0.
Q(n, d) ==
    LET s == IF d < 0 THEN -1 ELSE 1
        g == GCD(Abs(n), Abs(d))
    IN <<(s * n) \div g, (s * d) \div g>>

I(n) == <<n, 1>>

QAdd(a, b) == Q(a[1] * b[2] + b[1] * a[2], a[2] * b[2])
QSub(a, b) == Q(a[1] * b[2] - b[1] * a[2], a[2] * b[2])
QMul(a, b) == Q(a[1] * b[1], a[2] * b[2])
QNeg(a) == <<-a[1], a[2]>>
\* a / b, b # 0
QDiv(a, b) == Q(a[1] * b[2], a[2] * b[1])
\* IEEE comparison; holds for the infinities <<1, 0>> and <<-1, 0>> too
QLt(a, b) == a[1] * b[2] < b[1] * a[2]
QGt(a, b) == QLt(b, a)
QLe(a, b) == a[1] * b[2] <= b[1] * a[2]
QMin(a, b) == IF QLt(b, a) THEN b ELSE a

\* the largest k in lo..hi with k * k <= n, where lo * lo <= n
RECURSIVE ISqrtBetween(_, _, _)
ISqrtBetween(n, lo, hi) ==
    IF lo = hi THEN lo
    ELSE LET mid == (lo + hi + 1) \div 2
         IN IF mid * mid <= n THEN ISqrtBetween(n, mid, hi)
            ELSE ISqrtBetween(n, lo, mid - 1)
\* the whole part of the square root of n >= 0
ISqrt(n) == ISqrtBetween(n, 0, IF n < 46340 THEN n ELSE 46340)
IsSquare(n) == n >= 0 /\ ISqrt(n) * ISqrt(n) = n
\* whether f64::sqrt of the number is exact
QIsSquare(a) == IsSquare(a[1]) /\ IsSquare(a[2])
\* f64::sqrt, on the numbers whose root is rational
QSqrt(a) == <<ISqrt(a[1]), ISqrt(a[2])>>

\* powi
RECURSIVE QPow(_, _)
QPow(a, k) == IF k = 0 THEN I(1) ELSE QMul(a, QPow(a, k - 1))

INFINITY == <<1, 0>>
Zero == I(0)
One == I(1)

\* ----------------------------------------------------------- geom.rs

\* Point3 and Vector3 are triples of numbers
V(x, y, z) == <<I(x), I(y), I(z)>>

VAdd(u, v) == <<QAdd(u[1], v[1]), QAdd(u[2], v[2]), QAdd(u[3], v[3])>>
VSub(u, v) == <<QSub(u[1], v[1]), QSub(u[2], v[2]), QSub(u[3], v[3])>>
VNeg(u) == <<QNeg(u[1]), QNeg(u[2]), QNeg(u[3])>>
\* a * v
VScale(a, v) == <<QMul(v[1], a), QMul(v[2], a), QMul(v[3], a)>>
\* v / a is (1.0 / a) * v
VDiv(v, a) == VScale(QDiv(One, a), v)
dot(u, v) == QAdd(QAdd(QMul(u[1], v[1]), QMul(u[2], v[2])), QMul(u[3], v[3]))
length_squared(u) == dot(u, u)
norm(u) == QSqrt(length_squared(u))
to_unit_vector(u) ==
    LET length == norm(u)
    IN <<QDiv(u[1], length), QDiv(u[2], length), QDiv(u[3], length)>>

cross(u, v) ==
    <<QSub(QMul(u[2], v[3]), QMul(u[3], v[2])),
      QSub(QMul(u[3], v[1]), QMul(u[1], v[3])),
      QSub(QMul(u[1], v[2]), QMul(u[2], v[1]))>>

reflect(v, n) == VSub(v, VScale(QMul(I(2), dot(v, n)), n))

refract_sameside(v, n, etai_over_etat) ==
    LET cos_theta == dot(VNeg(v), n)
        r_out_perpendicular == VScale(etai_over_etat, VAdd(v, VScale(cos_theta, n)))
        d == QSub(One, length_squared(r_out_perpendicular))
        r_out_parallel == VScale(QSqrt(<<Abs(d[1]), d[2]>>), n)
    IN VAdd(r_out_perpendicular, r_out_parallel)
refract(v, n, etai_over_etat) ==
    LET cos_theta == dot(VNeg(v), n)
        r_out_perpendicular == VScale(etai_over_etat, VAdd(v, VScale(cos_theta, n)))
        d == QSub(One, length_squared(r_out_perpendicular))
        r_out_parallel == VScale(QSqrt(<<Abs(d[1]), d[2]>>), VNeg(n))
    IN VAdd(r_out_perpendicular, r_out_parallel)

\* ------------------------------------------------------------ ray.rs

Ray(origin, direction) == [origin |-> origin, direction |-> direction]
at(r, t) == VAdd(r.origin, VScale(t, r.direction))

\* ---------------------------------------------------------- color.rs

Color(red, green, blue) == <<red, green, blue>>
BLACK == Color(Zero, Zero, Zero)
WHITE == Color(One, One, One)
\* Color::mult
mult(a, b) == Color(QMul(a[1], b[1]), QMul(a[2], b[2]), QMul(a[3], b[3]))
\* f64 * Color
CScale(a, c) == Color(QMul(a, c[1]), QMul(a, c[2]), QMul(a, c[3]))
\* Color + Color
CAdd(a, b) == Color(QAdd(a[1], b[1]), QAdd(a[2], b[2]), QAdd(a[3], b[3]))

\* the value f64::sqrt gives a negative number; every comparison with it
\* is false
NaN == <<0, 0>>
\* f64::sqrt, on negative numbers and on those whose root is rational
sqrt(a) == IF a[1] < 0 THEN NaN ELSE QSqrt(a)
\* f64::round: to the nearest integer, halves away from zero
round(a) == IF a[1] >= 0 THEN (2 * a[1] + a[2]) \div (2 * a[2])
            ELSE -((2 * (-a[1]) + a[2]) \div (2 * a[2]))
\* `as u8` of a whole number: saturates
as_u8(n) == IF n < 0 THEN 0 ELSE IF n > 255 THEN 255 ELSE n

clamp_pixel_floor(c) ==
    IF QGt(c, One) THEN 255
    ELSE IF QLt(c, Zero) THEN 0
    ELSE IF c = NaN THEN 0
    ELSE as_u8((255 * c[1]) \div c[2])
\* clamp_pixel: c > 1.0 => 255, c < 0 => 0, _ => (255.0 * c).round() as u8
clamp_pixel(c) ==
    IF QGt(c, One) THEN 255
    ELSE IF QLt(c, Zero) THEN 0
    ELSE IF c = NaN THEN 0       \* 255.0 * NaN is NaN, and NaN as u8 is 0
    ELSE as_u8(round(QMul(I(255), c)))

\* Color::to_pixel
to_pixel(c) == <<clamp_pixel(c[1]), clamp_pixel(c[2]), clamp_pixel(c[3])>>

\* Color::sample_pixel
sample_pixel(c, samples_per_pixel) ==
    LET scale == QDiv(One, I(samples_per_pixel))
        r == QMul(c[1], scale)
        g == QMul(c[2], scale)
        b == QMul(c[3], scale)
    IN <<clamp_pixel(sqrt(r)), clamp_pixel(sqrt(g)), clamp_pixel(sqrt(b))>>

\* ------------------------------------------------------- material.rs

DiffuseNonMetal(albedo) ==
    [kind |-> "DiffuseNonMetal", color |-> albedo, fuzz |-> Zero, ior |-> Zero]
Metal(albedo, fuzz) ==
    [kind |-> "Metal", color |-> albedo, fuzz |-> fuzz, ior |-> Zero]
Dielectric(index_of_refraction, attenuation) ==
    [kind |-> "Dielectric", color |-> attenuation, fuzz |-> Zero,
     ior |-> index_of_refraction]

\* ----------------------------------------------------- shapes/mod.rs

Interval(min, max) == [min |-> min, max |-> max]
surrounds_closed(interval, x) == QLe(interval.min, x) /\ QLe(x, interval.max)
surrounds(interval, x) == QLt(interval.min, x) /\ QLt(x, interval.max)

Sphere(center, radius, material) ==
    [center |-> center, radius |-> radius, material |-> material]

None == [tag |-> "None"]
IsSome(x) == x.tag = "Some"

IntersectionNew_noflip(r, t, p, normal, material) ==
    [tag |-> "Some", t |-> t, p |-> p, normal |-> normal,
     ray_hit_outer_surface |-> QLt(dot(r.direction, normal), Zero),
     material |-> material]
\* Intersection::new
IntersectionNew(r, t, p, normal, material) ==
    LET ray_hit_outer_surface == QLt(dot(r.direction, normal), Zero)
        new_normal == IF ray_hit_outer_surface THEN normal ELSE VNeg(normal)
    IN [tag |-> "Some", t |-> t, p |-> p, normal |-> new_normal,
        ray_hit_outer_surface |-> ray_hit_outer_surface, material |-> material]

OutwardNormal_inward(s, p) == VDiv(VSub(s.center, p), s.radius)
\* the raw outward normal of Sphere::compute_intersection
OutwardNormal(s, p) == VDiv(VSub(p, s.center), s.radius)

compute_intersection(s, r, t) ==
    LET intersection_point == at(r, t)
    IN IntersectionNew(r, t, intersection_point,
                       OutwardNormal(s, intersection_point), s.material)

\* the quadratic of Sphere::hit
HalfB(s, r) == dot(r.direction, VSub(r.origin, s.center))
Discriminant(s, r) ==
    LET oc == VSub(r.origin, s.center)
        a == length_squared(r.direction)
        half_b == dot(r.direction, oc)
        c == QSub(length_squared(oc), QMul(s.radius, s.radius))
    IN QSub(QMul(half_b, half_b), QMul(a, c))
NearRoot(s, r) ==
    QDiv(QSub(QNeg(HalfB(s, r)), QSqrt(Discriminant(s, r))),
         length_squared(r.direction))
FarRoot(s, r) ==
    QDiv(QAdd(QNeg(HalfB(s, r)), QSqrt(Discriminant(s, r))),
         length_squared(r.direction))

SphereHit_tangent(s, r, interval) ==
    IF QLe(Zero, Discriminant(s, r)) /\ QGt(length_squared(r.direction), Zero)
    THEN IF surrounds(interval, NearRoot(s, r))
         THEN compute_intersection(s, r, NearRoot(s, r))
         ELSE IF surrounds(interval, FarRoot(s, r))
              THEN compute_intersection(s, r, FarRoot(s, r))
              ELSE None
    ELSE None
SphereHit_nearonly(s, r, interval) ==
    IF QGt(Discriminant(s, r), Zero) /\ surrounds(interval, NearRoot(s, r))
    THEN compute_intersection(s, r, NearRoot(s, r))
    ELSE None
SphereHit_farfirst(s, r, interval) ==
    IF QGt(Discriminant(s, r), Zero)
    THEN IF surrounds(interval, FarRoot(s, r))
         THEN compute_intersection(s, r, FarRoot(s, r))
         ELSE IF surrounds(interval, NearRoot(s, r))
              THEN compute_intersection(s, r, NearRoot(s, r))
              ELSE None
    ELSE None
\* Sphere::hit (Shape::hit dispatches to it)
SphereHit(s, r, interval) ==
    IF QGt(Discriminant(s, r), Zero)
    THEN IF surrounds(interval, NearRoot(s, r))
         THEN compute_intersection(s, r, NearRoot(s, r))
         ELSE IF surrounds(interval, FarRoot(s, r))
              THEN compute_intersection(s, r, FarRoot(s, r))
              ELSE None
    ELSE None

RECURSIVE HitLoop_ties(_, _, _, _, _, _, _)
HitLoop_ties(objs, i, r, interval, closest_intersection, closest_hit, trail) ==
    IF i > Len(objs)
    THEN [closest_intersection |-> closest_intersection, trail |-> trail]
    ELSE LET maybe_intersection == SphereHit(objs[i], r, interval)
             step == [object |-> objs[i], interval |-> interval,
                      maybe |-> maybe_intersection]
         IN IF IsSome(maybe_intersection) /\ QLe(maybe_intersection.t, closest_hit)
            THEN HitLoop_ties(objs, i + 1, r, interval, maybe_intersection,
                              maybe_intersection.t, Append(trail, step))
            ELSE HitLoop_ties(objs, i + 1, r, interval, closest_intersection,
                              closest_hit, Append(trail, step))

RECURSIVE HitLoop_whole(_, _, _, _, _, _, _)
HitLoop_whole(objs, i, r, interval, closest_intersection, closest_hit, trail) ==
    IF i > Len(objs)
    THEN [closest_intersection |-> closest_intersection, trail |-> trail]
    ELSE LET maybe_intersection == SphereHit(objs[i], r, interval)
             step == [object |-> objs[i], interval |-> interval,
                      maybe |-> maybe_intersection]
         IN IF IsSome(maybe_intersection) /\ QLt(maybe_intersection.t, closest_hit)
            THEN HitLoop_whole(objs, i + 1, r, interval, maybe_intersection,
                               maybe_intersection.t, Append(trail, step))
            ELSE HitLoop_whole(objs, i + 1, r, interval, closest_intersection,
                               closest_hit, Append(trail, step))

\* The loop of HittableObjects::hit from object i on.  trail records, for
\* every object scanned, the interval it was queried with and its answer.
RECURSIVE HitLoop(_, _, _, _, _, _, _)
HitLoop(objs, i, r, interval, closest_intersection, closest_hit, trail) ==
    IF i > Len(objs)
    THEN [closest_intersection |-> closest_intersection, trail |-> trail]
    ELSE LET reduced_interval == Interval(interval.min, closest_hit)
             maybe_intersection == SphereHit(objs[i], r, reduced_interval)
             step == [object |-> objs[i], interval |-> reduced_interval,
                      maybe |-> maybe_intersection]
         IN IF IsSome(maybe_intersection) /\ QLt(maybe_intersection.t, closest_hit)
            THEN HitLoop(objs, i + 1, r, interval, maybe_intersection,
                         maybe_intersection.t, Append(trail, step))
            ELSE HitLoop(objs, i + 1, r, interval, closest_intersection,
                         closest_hit, Append(trail, step))

\* HittableObjects::hit
HittableObjectsHit(objs, r, interval) ==
    HitLoop(objs, 1, r, interval, None, interval.max, <<>>).closest_intersection
HittableObjectsTrail(objs, r, interval) ==
    HitLoop(objs, 1, r, interval, None, interval.max, <<>>).trail

\* ----------------------------------------- material.rs: scattering

Some(scattered_ray, attenuation) ==
    [tag |-> "Some", ray |-> scattered_ray, attenuation |-> attenuation]

dielectric_reflectance(cosine, ref_index) ==
    LET r == QDiv(QSub(One, ref_index), QAdd(One, ref_index))
        r0 == QMul(r, r)
    IN QAdd(r0, QMul(QSub(One, r0), QPow(QSub(One, cosine), 5)))

\* The random numbers one call of scatter may draw: unit is the value of
\* random_unit_vector(), ball the value of random_point_in_unit_sphere(),
\* uniform the value of rng.gen().
Draws(unit, ball, uniform) == [unit |-> unit, ball |-> ball, uniform |-> uniform]

ScatterDiffuse(albedo, incident_ray, intersect, draws) ==
    LET scatter_direction == VAdd(intersect.normal, draws.unit)
    IN Some(Ray(intersect.p, scatter_direction), albedo)

ScatterMetal_unscaled(albedo, fuzz, incident_ray, intersect, draws) ==
    LET reflection == reflect(to_unit_vector(incident_ray.direction), intersect.normal)
        direction == VAdd(reflection, draws.ball)
    IN IF QGt(dot(direction, intersect.normal), Zero)
       THEN Some(Ray(intersect.p, direction), albedo)
       ELSE None
ScatterMetal_grazing(albedo, fuzz, incident_ray, intersect, draws) ==
    LET reflection == reflect(to_unit_vector(incident_ray.direction), intersect.normal)
        direction == VAdd(reflection, VScale(fuzz, draws.ball))
        scattered_ray == Ray(intersect.p, direction)
    IN IF QLe(Zero, dot(scattered_ray.direction, intersect.normal))
       THEN Some(scattered_ray, albedo)
       ELSE None
ScatterMetal(albedo, fuzz, incident_ray, intersect, draws) ==
    LET reflection == reflect(to_unit_vector(incident_ray.direction), intersect.normal)
        direction == VAdd(reflection, VScale(fuzz, draws.ball))
        scattered_ray == Ray(intersect.p, direction)
    IN IF QGt(dot(scattered_ray.direction, intersect.normal), Zero)
       THEN Some(scattered_ray, albedo)
       ELSE None

ScatterDielectric_oneratio(index_of_refraction, attenuation, incident_ray, intersect, draws) ==
    LET refraction_ratio == QDiv(One, index_of_refraction)
        incident_direction == to_unit_vector(incident_ray.direction)
        cos_theta == QMin(dot(intersect.normal, VNeg(incident_direction)), One)
        sin_theta == QSqrt(QSub(One, QMul(cos_theta, cos_theta)))
        cannot_refract == QGt(QMul(refraction_ratio, sin_theta), One)
        condition == cannot_refract
                     \/ QGt(dielectric_reflectance(cos_theta, refraction_ratio),
                            draws.uniform)
        refracted_direction ==
            IF condition
            THEN reflect(incident_direction, intersect.normal)
            ELSE refract(incident_direction, intersect.normal, refraction_ratio)
    IN Some(Ray(intersect.p, refracted_direction), attenuation)

ScatterDielectric(index_of_refraction, attenuation, incident_ray, intersect, draws) ==
    LET refraction_ratio == IF intersect.ray_hit_outer_surface
                            THEN QDiv(One, index_of_refraction)
                            ELSE index_of_refraction
        incident_direction == to_unit_vector(incident_ray.direction)
        cos_theta == QMin(dot(intersect.normal, VNeg(incident_direction)), One)
        sin_theta == QSqrt(QSub(One, QMul(cos_theta, cos_theta)))
        cannot_refract == QGt(QMul(refraction_ratio, sin_theta), One)
        condition == cannot_refract
                     \/ QGt(dielectric_reflectance(cos_theta, refraction_ratio),
                            draws.uniform)
        refracted_direction ==
            IF condition
            THEN reflect(incident_direction, intersect.normal)
            ELSE refract(incident_direction, intersect.normal, refraction_ratio)
    IN Some(Ray(intersect.p, refracted_direction), attenuation)

\* Material::scatter
scatter(material, incident_ray, intersect, draws) ==
    CASE material.kind = "DiffuseNonMetal" ->
            ScatterDiffuse(material.color, incident_ray, intersect, draws)
      [] material.kind = "Metal" ->
            ScatterMetal(material.color, material.fuzz, incident_ray, intersect, draws)
      [] material.kind = "Dielectric" ->
            ScatterDielectric(material.ior, material.color, incident_ray,
                              intersect, draws)

\* ------------------------------- camera.rs: the transport evaluator

SkyBlue == Color(<<1, 2>>, <<7, 10>>, One)

DepthExhausted_strict(depth) == depth < 0
\* if depth <= 0 { return Color::BLACK; }
DepthExhausted(depth) == depth <= 0

BackgroundColor_swapped(r) ==
    LET ray_direction == to_unit_vector(r.direction)
        t == QMul(<<1, 2>>, QAdd(ray_direction[2], One))
    IN CAdd(CScale(t, WHITE), CScale(QSub(One, t), SkyBlue))
\* the None arm: the background gradient
BackgroundColor(r) ==
    LET ray_direction == to_unit_vector(r.direction)
        t == QMul(<<1, 2>>, QAdd(ray_direction[2], One))
    IN CAdd(CScale(QSub(One, t), WHITE), CScale(t, SkyBlue))

RecursionDepth_same(depth) == depth
\* the depth the recursive call is given
RecursionDepth(depth) == depth - 1

ScatteredColor_sum(attenuation, inner) == CAdd(attenuation, inner)
\* attenuation.mult(self.compute_ray_color(scattered_ray, objects, depth - 1))
ScatteredColor(attenuation, inner) == mult(attenuation, inner)

\* ------------------------------------------------------------- state

VARIABLES
    objects,       \* HittableObjects.objects
    hit_called,    \* whether a closest-hit query has run on the current objects
    hit_r,         \* the query's ray
    hit_interval,  \* the query's interval
    hit_result,    \* what HittableObjects::hit returned
    hit_trail,     \* per object scanned: the interval it was asked, its answer
    since_clear,   \* history: the arguments of the add calls made since the
                   \* last clear, in call order
    cleared,       \* history: whether a clear has emptied a non-empty aggregate
    tr_scene,      \* compute_ray_color: the objects of the scene
    tr_eps,        \* the lower end of the interval its closest-hit query uses
    tr_hit,        \* what the last closest-hit query of the evaluator returned
    tr_ray0,       \* the ray of the outermost call
    tr_depth0,     \* the depth of the outermost call
    tr_pc,         \* "call": a call is entered; "return": a call has returned
                   \* to its caller's multiplication; "done"; "idle"
    tr_ray,        \* the ray of the innermost call
    tr_depth,      \* the depth of the innermost call
    tr_stack,      \* the attenuation each suspended caller will multiply by
    tr_result,     \* the colour returned by the call that returned last
    tr_hits,       \* closest-hit queries made so far
    tr_scatters,   \* scatter evaluations made so far
    tr_path,       \* the attenuations of the scatter events so far
    tr_end,        \* how the innermost call ended: "miss", "absorbed", "depth"
    sc_pc,         \* Material::scatter: "ready" before the calls, "done" after
    sc_ray,        \* the incident ray
    sc_intersect,  \* the Intersection it is called with
    sc_draws,      \* the random draws of two calls on these arguments
    sc_result,     \* what the two calls returned
    px_pc,         \* Color -> bytes: "ready", then the conversion applied
    px_color,      \* the Color converted
    px_samples,    \* samples_per_pixel
    px_out,        \* the bytes returned
    rd_pc,         \* Camera::render: "sampling" a pixel, "done", "idle"
    rd_config,     \* RenderConfig: width, height, samples_per_pixel, max_depth
    rd_row,        \* position in the scanlines (0..height).rev()
    rd_i,          \* the column of the pixel being sampled
    rd_fates,      \* what the samples of a pixel may meet in this scene
    rd_fate,       \* per sample of the pixel: the ray create_ray will give it,
                   \* the values its random source will yield, and the colour
                   \* compute_ray_color returns on them
    rd_slots,      \* the Vec<Color> collected, by sample index; <<>>
                   \* where the worker has not finished
    rd_uv,         \* the (u, v) the worker that finished last passed to create_ray
    binary_pixels, \* the bytes pushed so far
    rd_written,    \* per pixel pushed: its i, j, summed colour and bytes
    rp_pc,         \* random_point_in_unit_sphere: in its "loop", "returned", "idle"
    rp_v           \* the vector it built last; the value returned, once returned

aggVars == <<objects, hit_called, hit_r, hit_interval, hit_result, hit_trail,
             since_clear, cleared>>
traceVars == <<tr_scene, tr_eps, tr_hit, tr_ray0, tr_depth0, tr_pc, tr_ray, tr_depth,
               tr_stack, tr_result, tr_hits, tr_scatters, tr_path, tr_end>>
scatterVars == <<sc_pc, sc_ray, sc_intersect, sc_draws, sc_result>>
pixelVars == <<px_pc, px_color, px_samples, px_out>>
renderVars == <<rd_pc, rd_config, rd_row, rd_i, rd_fates, rd_fate, rd_slots, rd_uv,
                binary_pixels, rd_written>>
ballVars == <<rp_pc, rp_v>>
vars == <<aggVars, traceVars, scatterVars, pixelVars, renderVars, ballVars>>
notAgg == <<traceVars, scatterVars, pixelVars, renderVars, ballVars>>
notTrace == <<aggVars, scatterVars, pixelVars, renderVars, ballVars>>
notScatter == <<aggVars, traceVars, pixelVars, renderVars, ballVars>>
notPixel == <<aggVars, traceVars, scatterVars, renderVars, ballVars>>
notRender == <<hit_called, hit_r, hit_interval, hit_result, hit_trail, since_clear, cleared,
               traceVars, scatterVars, pixelVars, ballVars>>
notBall == <<aggVars, traceVars, scatterVars, pixelVars, renderVars>>

\* ------------------------------------------------- the scene aggregate

MaxObjects == 2

Grey == Color(<<1, 2>>, <<1, 2>>, <<1, 2>>)
Gold == Color(<<7, 10>>, <<3, 5>>, <<1, 2>>)

\* The primitives a scene is built from: two overlapping spheres along
\* the x axis, a sphere coincident with the first but of another material,
\* a sphere that meets the first one's surface at (-5, 0, 0), and a sphere
\* of negative radius.
ShapeA == Sphere(V(0, 0, 0), I(5), DiffuseNonMetal(Grey))
ShapeB == Sphere(V(3, 0, 0), I(5), Metal(Gold, Zero))
ShapeC == Sphere(V(0, 0, 0), I(5), Metal(Gold, Zero))
ShapeD == Sphere(V(-2, 0, 4), I(5), Dielectric(<<3, 2>>, WHITE))
ShapeE == Sphere(V(6, 0, 0), I(-5), DiffuseNonMetal(Grey))
Shapes == {ShapeA, ShapeB, ShapeC, ShapeD, ShapeE}

\* Rays parallel to the x axis: from outside and from inside the spheres,
\* towards them and away, through them, tangent to them and past them, of
\* unit and of other lengths, and the degenerate ray of direction zero.
RayOrigins == {V(-10, 0, 0), V(0, 0, 0), V(-10, 3, 0), V(-10, 5, 0)}
RayDirections == {V(1, 0, 0), V(-1, 0, 0), V(2, 0, 0), V(0, 0, 0)}
Rays == {Ray(o, d) : o \in RayOrigins, d \in RayDirections}

Intervals ==
    {Interval(Zero, INFINITY), Interval(<<1, 1000>>, INFINITY),
     Interval(Zero, I(5)), Interval(I(6), I(20)), Interval(I(5), I(15))}

\* every square root SphereHit takes of these inputs is exact
ExactRoots ==
    \A s \in Shapes, r \in Rays :
        QGt(Discriminant(s, r), Zero) => QIsSquare(Discriminant(s, r))

NoQuery == [tag |-> "NoQuery"]

AggInit ==
    /\ objects = <<>>
    /\ hit_called = FALSE
    /\ hit_r = NoQuery
    /\ hit_interval = NoQuery
    /\ hit_result = NoQuery
    /\ hit_trail = <<>>
    /\ since_clear = <<>>
    /\ cleared = FALSE

\* An Intersection borrows from the aggregate, so add and clear (&mut self)
\* run only once the last query's result is dropped.
DropQuery ==
    /\ hit_called' = FALSE
    /\ hit_r' = NoQuery
    /\ hit_interval' = NoQuery
    /\ hit_result' = NoQuery
    /\ hit_trail' = <<>>

add_front(object) ==
    /\ Len(objects) < MaxObjects
    /\ objects' = <<object>> \o objects
    /\ DropQuery

\* HittableObjects::add
add(object) ==
    /\ Len(objects) < MaxObjects
    /\ objects' = Append(objects, object)
    /\ DropQuery

\* HittableObjects::clear
clear ==
    /\ objects' = <<>>
    /\ DropQuery

\* HittableObjects::hit
hit(r, interval) ==
    /\ ~hit_called
    /\ hit_called' = TRUE
    /\ hit_r' = r
    /\ hit_interval' = interval
    /\ LET run == HitLoop(objects, 1, r, interval, None, interval.max, <<>>)
       IN /\ hit_result' = run.closest_intersection
          /\ hit_trail' = run.trail
    /\ UNCHANGED objects

\* the caller drops the Intersection
release ==
    /\ hit_called
    /\ DropQuery
    /\ UNCHANGED objects

Add ==
    /\ \E object \in Shapes :
        /\ add(object)
        /\ since_clear' = Append(since_clear, object)
    /\ UNCHANGED <<cleared, notAgg>>
Clear ==
    /\ clear
    /\ since_clear' = <<>>
    /\ cleared' = (cleared \/ since_clear # <<>>)
    /\ UNCHANGED notAgg
Hit ==
    /\ \E r \in Rays, interval \in Intervals : hit(r, interval)
    /\ UNCHANGED <<since_clear, cleared, notAgg>>
Release == release /\ UNCHANGED <<since_clear, cleared, notAgg>>

TraceIdle ==
    /\ tr_scene = <<>>
    /\ tr_eps = Zero
    /\ tr_hit = NoQuery
    /\ tr_ray0 = NoQuery
    /\ tr_depth0 = 0
    /\ tr_pc = "idle"
    /\ tr_ray = NoQuery
    /\ tr_depth = 0
    /\ tr_stack = <<>>
    /\ tr_result = NoQuery
    /\ tr_hits = 0
    /\ tr_scatters = 0
    /\ tr_path = <<>>
    /\ tr_end = "none"

ScatterIdle ==
    /\ sc_pc = "idle"
    /\ sc_ray = NoQuery
    /\ sc_intersect = NoQuery
    /\ sc_draws = <<>>
    /\ sc_result = <<>>

PixelIdle ==
    /\ px_pc = "idle"
    /\ px_color = BLACK
    /\ px_samples = 1
    /\ px_out = <<>>

RenderIdle ==
    /\ rd_pc = "idle"
    /\ rd_config = NoQuery
    /\ rd_row = 0
    /\ rd_i = 0
    /\ rd_fates = {}
    /\ rd_fate = <<>>
    /\ rd_slots = <<>>
    /\ rd_uv = <<>>
    /\ binary_pixels = <<>>
    /\ rd_written = <<>>

BallIdle ==
    /\ rp_pc = "idle"
    /\ rp_v = <<>>

Init == AggInit /\ TraceIdle /\ ScatterIdle /\ PixelIdle /\ RenderIdle /\ BallIdle
Next == Add \/ Clear \/ Hit \/ Release
Spec == Init /\ [][Next]_vars

\* ------------------------------------------------ closest-hit claims

\* The ray parameters at which a ray can cross a sphere of the scene sets
\* above, as a grid of half integers.
TGrid == {Q(k, 2) : k \in -60..60}

\* Geometry, not the quadratic formula: the ray's point at t lies on the
\* sphere's surface and the ray is not tangent to the surface there.
IsCrossing(s, r, t) ==
    LET radial == VSub(at(r, t), s.center)
    IN /\ length_squared(radial) = QMul(s.radius, s.radius)
       /\ dot(r.direction, radial) # Zero

Crossings == [s \in Shapes, r \in Rays |-> {t \in TGrid : IsCrossing(s, r, t)}]

\* the crossings of the spheres of objs that lie strictly inside the interval
CrossingsInside(objs, r, interval) ==
    {t \in UNION {Crossings[objs[i], r] : i \in 1..Len(objs)} :
        QLt(interval.min, t) /\ QLt(t, interval.max)}

\* the grid holds every root the model's Sphere::hit can compute
GridComplete ==
    \A s \in Shapes, r \in Rays :
        QGt(Discriminant(s, r), Zero) =>
            /\ NearRoot(s, r) \in Crossings[s, r]
            /\ FarRoot(s, r) \in Crossings[s, r]

Permuted(objs, f) == [i \in 1..Len(objs) |-> objs[f[i]]]
Orders(objs) == {Permuted(objs, f) : f \in Permutations(1..Len(objs))}

\* C1: HittableObjects::hit returns the intersection of smallest t among all
\* crossings of the ray with a sphere of the aggregate that lie strictly
\* inside the interval, that t is the same for every insertion order of the
\* same spheres, and it returns None only when there is no such crossing.
C1_ClosestHit ==
    hit_called =>
        LET ts == CrossingsInside(objects, hit_r, hit_interval)
        IN /\ (hit_result = None) <=> (ts = {})
           /\ IsSome(hit_result) =>
                /\ hit_result.t \in ts
                /\ \A t \in ts : QLe(hit_result.t, t)
           /\ \A o \in Orders(objects) :
                LET other == HittableObjectsHit(o, hit_r, hit_interval)
                IN /\ other.tag = hit_result.tag
                   /\ IsSome(other) => other.t = hit_result.t

\* two overlapping spheres along one ray, the farther one inserted first
C1_Witness ==
    /\ hit_called
    /\ objects = <<ShapeB, ShapeA>>
    /\ hit_r = Ray(V(-10, 0, 0), V(1, 0, 0))
    /\ hit_interval = Interval(Zero, INFINITY)
    /\ IsSome(hit_result)
    /\ hit_result.t = I(5)

\* C2 as stated: the whole Intersection returned by HittableObjects::hit is
\* identical for every permutation of the same primitives, ties included.
C2_OrderIrrelevant ==
    hit_called =>
        \A o \in Orders(objects) :
            HittableObjectsHit(o, hit_r, hit_interval) = hit_result

\* the objects of objs whose own hit in the whole interval is at parameter t
HitAt(objs, r, interval, t) ==
    {i \in 1..Len(objs) :
        /\ IsSome(SphereHit(objs[i], r, interval))
        /\ SphereHit(objs[i], r, interval).t = t}

\* C2 amended: the tag and t of the result are the same for every
\* permutation; the whole Intersection is the one of the first inserted
\* primitive that is hit at the smallest t, so it is the same for every
\* permutation when all primitives hit at that t give the same Intersection.
C2_FirstInsertedWins ==
    (hit_called /\ IsSome(hit_result)) =>
        LET tied == HitAt(objects, hit_r, hit_interval, hit_result.t)
            first == CHOOSE i \in tied : \A j \in tied : i <= j
        IN /\ tied # {}
           /\ hit_result = SphereHit(objects[first], hit_r, hit_interval)
           /\ \A o \in Orders(objects) :
                LET other == HittableObjectsHit(o, hit_r, hit_interval)
                IN /\ IsSome(other)
                   /\ other.t = hit_result.t
                   /\ (\A i, j \in tied :
                          SphereHit(objects[i], hit_r, hit_interval)
                              = SphereHit(objects[j], hit_r, hit_interval))
                         => other = hit_result

\* two primitives of different materials hit at the same t: the first wins
C2_Witness ==
    /\ hit_called
    /\ objects = <<ShapeC, ShapeA>>
    /\ hit_r = Ray(V(-10, 0, 0), V(1, 0, 0))
    /\ IsSome(hit_result)
    /\ hit_result.t = I(5)
    /\ hit_result.material = ShapeC.material
    /\ HittableObjectsHit(<<ShapeA, ShapeC>>, hit_r, hit_interval).material
           = ShapeA.material

\* every Intersection a query produced: each scanned object's answer (the
\* aggregate's result is one of them)
Returned == {i \in 1..Len(hit_trail) : IsSome(hit_trail[i].maybe)}

\* C3: every Intersection returned by hit has a stored normal with
\* dot(normal, ray.direction) < 0, and its front-face flag is true exactly
\* when the unflipped outward normal (point - center)/radius already had a
\* negative dot product with the ray direction.
C3_NormalOpposesRay ==
    /\ \A i \in Returned :
        LET h == hit_trail[i].maybe
            s == hit_trail[i].object
            outward == VScale(QDiv(One, s.radius), VSub(h.p, s.center))
        IN /\ QLt(dot(h.normal, hit_r.direction), Zero)
           /\ h.ray_hit_outer_surface <=> QLt(dot(outward, hit_r.direction), Zero)
    /\ IsSome(hit_result) =>
        /\ QLt(dot(hit_result.normal, hit_r.direction), Zero)
        /\ \E i \in Returned : hit_trail[i].maybe = hit_result

\* a back-face hit: the ray starts inside the sphere and the normal is flipped
C3_Witness ==
    /\ hit_called
    /\ objects = <<ShapeA>>
    /\ hit_r = Ray(V(0, 0, 0), V(1, 0, 0))
    /\ IsSome(hit_result)
    /\ ~hit_result.ray_hit_outer_surface
    /\ hit_result.normal = V(-1, 0, 0)

\* ------------------------------------------------ Sphere::hit claims

\* the calls of Sphere::hit a query made: object, ray, interval, answer
Calls == 1..Len(hit_trail)

OriginOutside(s, r) ==
    QGt(length_squared(VSub(r.origin, s.center)), QMul(s.radius, s.radius))

\* the ray (t > 0) passes through the sphere: it crosses the surface twice
RayPassesThrough(s, r) ==
    /\ Cardinality(Crossings[s, r]) = 2
    /\ \A t \in Crossings[s, r] : QGt(t, Zero)

DiscriminantOf(s, r) ==
    LET oc == VSub(r.origin, s.center)
        a == dot(r.direction, r.direction)
        half_b == dot(r.direction, oc)
        c == QSub(dot(oc, oc), QMul(s.radius, s.radius))
    IN QSub(QMul(half_b, half_b), QMul(a, c))

\* C9: Sphere::hit returns None for every ray tangent to the sphere
\* (discriminant equal to 0), whatever the interval, and for every ray with
\* a negative discriminant.
C9_TangentMisses ==
    \A i \in Calls :
        QLe(DiscriminantOf(hit_trail[i].object, hit_r), Zero) =>
            hit_trail[i].maybe = None

\* a ray of non-zero direction that touches ShapeA at t = 10, asked in an
\* interval that holds t = 10
C9_Witness ==
    /\ hit_called
    /\ objects = <<ShapeA>>
    /\ hit_r = Ray(V(-10, 5, 0), V(1, 0, 0))
    /\ hit_interval = Interval(Zero, INFINITY)
    /\ DiscriminantOf(ShapeA, hit_r) = Zero
    /\ length_squared(VSub(at(hit_r, I(10)), ShapeA.center)) = I(25)
    /\ hit_result = None

\* --------------------------------------------- the transport evaluator

MaxDepth == 3

\* Scenes on the y axis: spheres of radius 1 around (0, 0, 0) and (0, 4, 0).
Matte == Sphere(V(0, 0, 0), One, DiffuseNonMetal(Grey))
Mirror == Sphere(V(0, 4, 0), One, Metal(Gold, Zero))
Glass == Sphere(V(0, 0, 0), One, Dielectric(<<3, 2>>, Color(One, <<9, 10>>, One)))
Fuzzy == Sphere(V(0, 4, 0), One, Metal(Gold, I(2)))
Scenes == {<<>>, <<Matte, Mirror>>, <<Glass, Fuzzy>>}

\* Rays from between the two spheres: down and up the axis, and past them.
TraceRays ==
    {Ray(V(0, 2, 0), d) : d \in {V(0, -1, 0), V(0, 1, 0), V(0, -2, 0), V(3, 4, 0)}}

\* A polished sphere and a ray of long direction that reaches it at
\* t = 1/2000 and leaves it at t = 3/2000.
Polished == Sphere(V(0, 0, 0), One, Metal(Gold, Zero))
LongRay == Ray(V(0, 2, 0), V(0, -2000, 0))

\* the scene and the primary ray of a top-level call
TraceCases == (Scenes \X TraceRays) \cup {<<(<<Polished>>), LongRay>>}

\* The evaluator of camera.rs asks for hits in (1e-3, inf), the one of
\* shapes/mod.rs in (0, inf).
Epsilons == {<<1, 1000>>, Zero}

\* values of random_unit_vector(), random_point_in_unit_sphere(), rng.gen()
Units == {V(0, 1, 0), V(0, -1, 0),
          <<(<<24, 25>>), (<<7, 25>>), Zero>>, <<(<<24, 25>>), (<<-7, 25>>), Zero>>}
Balls == {V(0, 0, 0), <<Zero, (<<3, 4>>), Zero>>}
Uniforms == {Zero, <<1, 2>>}
AllDraws == {Draws(unit, ball, uniform) :
                unit \in Units, ball \in Balls, uniform \in Uniforms}

TraceInit ==
    /\ \E c \in TraceCases :
          /\ tr_scene = c[1]
          /\ tr_ray0 = c[2]
    /\ tr_eps \in Epsilons
    /\ tr_hit = NoQuery
    /\ tr_depth0 \in -1..MaxDepth
    /\ tr_pc = "call"
    /\ tr_ray = tr_ray0
    /\ tr_depth = tr_depth0
    /\ tr_stack = <<>>
    /\ tr_result = NoQuery
    /\ tr_hits = 0
    /\ tr_scatters = 0
    /\ tr_path = <<>>
    /\ tr_end = "none"

\* the innermost call returns color
Returns(color, why) ==
    /\ tr_result' = color
    /\ tr_end' = why
    /\ tr_pc' = IF tr_stack = <<>> THEN "done" ELSE "return"
    /\ UNCHANGED <<tr_ray, tr_depth, tr_stack, tr_path>>

\* Some((scattered_ray, attenuation)): the recursive call is entered;
\* None: BLACK is returned
scatter_arm(ray_and_color) ==
    /\ tr_scatters' = tr_scatters + 1
    /\ IF IsSome(ray_and_color)
       THEN /\ ray_and_color.ray.direction # V(0, 0, 0)
            /\ tr_ray' = ray_and_color.ray
            /\ tr_depth' = RecursionDepth(tr_depth)
            /\ tr_stack' = Append(tr_stack, ray_and_color.attenuation)
            /\ tr_path' = Append(tr_path, ray_and_color.attenuation)
            /\ UNCHANGED <<tr_pc, tr_result, tr_end>>
       ELSE Returns(BLACK, "absorbed")

\* if let Some(intersection) = objects.hit(...) { scatter } else { background }
hit_arm(intersection, draws) ==
    /\ tr_hits' = tr_hits + 1
    /\ tr_hit' = intersection
    /\ IF IsSome(intersection)
       THEN scatter_arm(scatter(intersection.material, tr_ray, intersection, draws))
       ELSE Returns(BackgroundColor(tr_ray), "miss") /\ UNCHANGED tr_scatters

\* compute_ray_color, from its entry to its return or to its recursive call
compute_ray_color(draws) ==
    /\ tr_pc = "call"
    /\ IF DepthExhausted(tr_depth)
       THEN Returns(BLACK, "depth") /\ UNCHANGED <<tr_hits, tr_hit, tr_scatters>>
       ELSE hit_arm(HittableObjectsHit(tr_scene, tr_ray, Interval(tr_eps, INFINITY)),
                    draws)
    /\ UNCHANGED <<tr_scene, tr_eps, tr_ray0, tr_depth0>>

\* back in the caller: attenuation.mult(<the value returned>)
return_to_caller ==
    /\ tr_pc = "return"
    /\ tr_result' = ScatteredColor(tr_stack[Len(tr_stack)], tr_result)
    /\ tr_stack' = SubSeq(tr_stack, 1, Len(tr_stack) - 1)
    /\ tr_pc' = IF Len(tr_stack) = 1 THEN "done" ELSE "return"
    /\ UNCHANGED <<tr_scene, tr_eps, tr_hit, tr_ray0, tr_depth0, tr_ray, tr_depth,
                   tr_hits, tr_scatters, tr_path, tr_end>>

TraceCall == (\E draws \in AllDraws : compute_ray_color(draws)) /\ UNCHANGED notTrace
TraceReturn == return_to_caller /\ UNCHANGED notTrace

TraceNext == TraceCall \/ TraceReturn
TraceStart == AggInit /\ TraceInit /\ ScatterIdle /\ PixelIdle /\ RenderIdle /\ BallIdle
TraceSpec == TraceStart /\ [][TraceNext]_vars

\* every square root the evaluator takes is exact: the discriminants of the
\* spheres the ray crosses and the length of the ray's direction
TraceExact ==
    tr_pc = "call" =>
        /\ QIsSquare(length_squared(tr_ray.direction))
        /\ \A i \in 1..Len(tr_scene) :
              QGt(Discriminant(tr_scene[i], tr_ray), Zero)
                  => QIsSquare(Discriminant(tr_scene[i], tr_ray))

\* ------------------------------------------- transport evaluator claims

\* C4: compute_ray_color called with depth <= 0 returns exactly black, for
\* every ray and scene, without querying the scene or any material: the call
\* returns (0, 0, 0) in that step and the counts of closest-hit queries and
\* of scatter evaluations stay as they are.
C4_DepthZeroIsBlack ==
    [][(tr_pc = "call" /\ tr_depth <= 0) =>
          /\ tr_pc' # "call"
          /\ tr_result' = <<(<<0, 1>>), (<<0, 1>>), (<<0, 1>>)>>
          /\ tr_hits' = tr_hits
          /\ tr_scatters' = tr_scatters]_vars

\* an outermost call with depth 0 on a scene whose sphere the ray would hit
C4_Witness ==
    /\ tr_pc = "done"
    /\ tr_depth0 = 0
    /\ tr_scene = <<Matte, Mirror>>
    /\ tr_ray0 = Ray(V(0, 2, 0), V(0, -1, 0))
    /\ tr_result = BLACK
    /\ tr_hits = 0

Max(a, b) == IF a > b THEN a ELSE b

\* What is left of a call: 0 once it has returned to its outermost caller,
\* the suspended callers while returning, and, in a call of depth d, the
\* callers, this call and two steps for each level of depth it may still
\* descend.
Rank ==
    CASE tr_pc = "call" -> Len(tr_stack) + 2 * Max(tr_depth, 0) + 1
      [] tr_pc = "return" -> Len(tr_stack)
      [] OTHER -> 0

\* C5: every call of the evaluator terminates: each recursive call passes
\* depth - 1 (every step of a call lowers Rank, a natural number, so no call
\* runs for ever), and a call with depth d > 0 performs at most d closest-hit
\* queries and at most d scatter evaluations, for every scene and every
\* sequence of random draws.
C5_Terminates ==
    /\ [](/\ tr_hits <= Max(tr_depth0, 0)
          /\ tr_scatters <= Max(tr_depth0, 0)
          /\ Rank >= 0
          /\ (tr_pc # "done") => Rank > 0)
    /\ [][/\ Rank' < Rank
          /\ (tr_pc = "call" /\ tr_pc' = "call") => tr_depth' = tr_depth - 1]_vars

\* a path that uses the whole budget: MaxDepth queries and scatter events
C5_Witness ==
    /\ tr_pc = "done"
    /\ tr_depth0 = MaxDepth
    /\ tr_hits = tr_depth0
    /\ tr_scatters = tr_depth0
    /\ tr_end = "depth"

\* (1-t)*white + t*(0.5, 0.7, 1.0) with t = 0.5*(unit_direction.y + 1)
Gradient(direction) ==
    LET len == QSqrt(dot(direction, direction))
        t == QMul(<<1, 2>>, QAdd(QDiv(direction[2], len), One))
        w == QSub(One, t)
    IN <<QAdd(w, QMul(t, <<1, 2>>)), QAdd(w, QMul(t, <<7, 10>>)), QAdd(w, t)>>

\* C6 as stated: against an empty scene the evaluator returns the background
\* gradient for every ray.
C6_EmptySceneGradient ==
    (tr_pc = "done" /\ tr_scene = <<>>) => tr_result = Gradient(tr_ray0.direction)

\* C6 amended: against an empty scene the evaluator called with depth > 0
\* returns the background gradient for every ray: (0.5, 0.7, 1.0) for
\* direction (0, 1, 0) and (1, 1, 1) for direction (0, -1, 0).
C6_EmptySceneGradientPositiveDepth ==
    (tr_pc = "done" /\ tr_scene = <<>> /\ tr_depth0 > 0) =>
        /\ tr_result = Gradient(tr_ray0.direction)
        /\ tr_ray0.direction = V(0, 1, 0) =>
              tr_result = <<(<<1, 2>>), (<<7, 10>>), (<<1, 1>>)>>
        /\ tr_ray0.direction = V(0, -1, 0) =>
              tr_result = <<(<<1, 1>>), (<<1, 1>>), (<<1, 1>>)>>
        /\ tr_hits = 1 /\ tr_scatters = 0

C6_Witness ==
    /\ tr_pc = "done"
    /\ tr_scene = <<>>
    /\ tr_depth0 > 0
    /\ tr_ray0.direction = V(0, 1, 0)
    /\ tr_result = SkyBlue

\* the elementwise product of the colours of a sequence with a last colour
RECURSIVE PathProduct(_, _)
PathProduct(attenuations, last) ==
    IF attenuations = <<>>
    THEN last
    ELSE LET a == Head(attenuations)
             rest == PathProduct(Tail(attenuations), last)
         IN <<QMul(a[1], rest[1]), QMul(a[2], rest[2]), QMul(a[3], rest[3])>>

\* C7: with depth > 0 and a closest hit found, the evaluator returns black
\* when the material's scatter returns None and otherwise the elementwise
\* product of the attenuation with its result for the scattered ray at
\* depth - 1: the colour of a path is the product of the attenuations of its
\* scatter events times the background colour of the ray that finally
\* misses, and black if the path is absorbed or the depth runs out.
C7_PathColour ==
    tr_pc = "done" =>
        /\ tr_end = "miss" =>
              tr_result = PathProduct(tr_path, Gradient(tr_ray.direction))
        /\ tr_end \in {"absorbed", "depth"} =>
              tr_result = <<(<<0, 1>>), (<<0, 1>>), (<<0, 1>>)>>
        /\ tr_end = "absorbed" => tr_scatters = Len(tr_path) + 1
        /\ tr_end # "absorbed" => tr_scatters = Len(tr_path)

\* two scatter events and then a miss: the colour is neither black nor the
\* background alone
C7_Witness ==
    /\ tr_pc = "done"
    /\ tr_end = "miss"
    /\ Len(tr_path) = 2
    /\ tr_path[1] # tr_path[2]
    /\ tr_result # BLACK
    /\ tr_result # Gradient(tr_ray.direction)

\* a path ended by absorption after a scatter event
C7_WitnessAbsorbed ==
    /\ tr_pc = "done"
    /\ tr_end = "absorbed"
    /\ Len(tr_path) >= 1
    /\ tr_result = BLACK

\* ------------------------------------------------- Material::scatter

\* A sphere whose top is the origin, of each material.
Floor(material) == Sphere(V(0, -5, 0), I(5), material)
Tint == Color(One, <<9, 10>>, <<4, 5>>)
ScatterMaterials ==
    {Metal(Gold, Zero), Metal(Gold, <<1, 2>>), Metal(Gold, <<4, 3>>), Metal(Gold, I(2)),
     DiffuseNonMetal(Grey),
     Dielectric(<<3, 2>>, WHITE),
     Dielectric(One, Tint), Dielectric(<<4, 3>>, Tint)}

\* Rays that hit it: at the origin from above, straight and at a slant, with
\* directions of length 1, 2 and 5, and from inside: from its centre, and
\* upwards from left of the centre, meeting the surface at a slant.
ScatterRays ==
    {Ray(V(0, 2, 0), V(0, -1, 0)), Ray(V(0, 2, 0), V(0, -2, 0)),
     Ray(V(-3, 4, 0), V(3, -4, 0)), Ray(V(-4, 3, 0), V(4, -3, 0)),
     Ray(V(0, -5, 0), V(0, 1, 0)), Ray(V(0, -5, 0), V(3, 4, 0)),
     Ray(V(-3, -5, 0), V(0, 1, 0)), Ray(V(-4, -5, 0), V(0, 1, 0))}

HitOf(material, r) == SphereHit(Floor(material), r, Interval(<<1, 1000>>, INFINITY))

\* the square roots a call of scatter takes are exact
ScatterExact(material, r) ==
    /\ QIsSquare(length_squared(r.direction))
    /\ material.kind = "Dielectric" =>
          LET h == HitOf(material, r)
              ratio == IF h.ray_hit_outer_surface
                       THEN QDiv(One, material.ior) ELSE material.ior
              u == to_unit_vector(r.direction)
              cos_theta == QMin(dot(h.normal, VNeg(u)), One)
              sin2 == QSub(One, QMul(cos_theta, cos_theta))
          IN /\ QIsSquare(sin2)
             /\ \/ QGt(QMul(ratio, QSqrt(sin2)), One)
                \/ QIsSquare(QSub(One, QMul(QMul(ratio, ratio), sin2)))

ScatterCases ==
    {c \in ScatterMaterials \X ScatterRays :
        IsSome(HitOf(c[1], c[2])) /\ ScatterExact(c[1], c[2])}

ScatterBalls == {V(0, 0, 0), <<Zero, (<<3, 4>>), Zero>>, <<(<<1, 2>>), (<<1, 2>>), (<<1, 2>>)>>}
ScatterUniforms == Uniforms \cup {<<1, 100>>}
ScatterDraws == {Draws(unit, ball, uniform) :
                    unit \in Units, ball \in ScatterBalls, uniform \in ScatterUniforms}

ScatterInit ==
    /\ sc_pc = "ready"
    /\ \E c \in ScatterCases :
          /\ sc_ray = c[2]
          /\ sc_intersect = HitOf(c[1], c[2])
    /\ sc_draws = <<>>
    /\ sc_result = <<>>

\* two calls of scatter on the same material, ray and intersection
scatter_twice(draws1, draws2) ==
    /\ sc_pc = "ready"
    /\ sc_pc' = "done"
    /\ sc_draws' = <<draws1, draws2>>
    /\ sc_result' = <<scatter(sc_intersect.material, sc_ray, sc_intersect, draws1),
                      scatter(sc_intersect.material, sc_ray, sc_intersect, draws2)>>
    /\ UNCHANGED <<sc_ray, sc_intersect>>

Scatter ==
    (\E draws1, draws2 \in ScatterDraws : scatter_twice(draws1, draws2))
        /\ UNCHANGED notScatter

ScatterNext == Scatter
ScatterStart == AggInit /\ TraceIdle /\ ScatterInit /\ PixelIdle /\ RenderIdle /\ BallIdle
ScatterSpec == ScatterStart /\ [][ScatterNext]_vars

\* the mirror image d - 2(d.n)n of d in the plane of normal n, written out
MirrorImage(d, n) ==
    LET k == QMul(I(2), QAdd(QAdd(QMul(d[1], n[1]), QMul(d[2], n[2])), QMul(d[3], n[3])))
    IN <<QSub(d[1], QMul(k, n[1])), QSub(d[2], QMul(k, n[2])), QSub(d[3], QMul(k, n[3]))>>

PolishedMetal ==
    /\ sc_pc = "done"
    /\ sc_intersect.material.kind = "Metal"
    /\ sc_intersect.material.fuzz = Zero

\* C10 as stated: Metal scattering with fuzz = 0 is deterministic, and the
\* scattered direction is the exact mirror reflection d - 2(d.n)n of the
\* incident direction d.
C10_MirrorOfIncident ==
    PolishedMetal =>
        /\ sc_result[1] = sc_result[2]
        /\ IsSome(sc_result[1])
        /\ sc_result[1].ray.direction
              = MirrorImage(sc_ray.direction, sc_intersect.normal)

\* C10 amended: Metal scattering with fuzz = 0 is deterministic: two
\* evaluations with different random draws return the same result, a ray
\* from the hit point with the albedo; its direction is the mirror
\* reflection u - 2(u.n)n of the unit incident direction u = d/|d|: the unit
\* vector along the mirror image of d.  (Vector3::reflect itself maps
\* (1, -1, 0) on normal (0, 1, 0) to (1, 1, 0).)
C10_MirrorOfUnitIncident ==
    /\ PolishedMetal =>
        LET m == MirrorImage(sc_ray.direction, sc_intersect.normal)
            out == sc_result[1]
        IN /\ sc_result[1] = sc_result[2]
           /\ IsSome(out)
           /\ out.ray.origin = sc_intersect.p
           /\ out.attenuation = sc_intersect.material.color
           /\ dot(out.ray.direction, out.ray.direction) = One
           /\ cross(out.ray.direction, m) = V(0, 0, 0)
           /\ QGt(dot(out.ray.direction, m), Zero)
    /\ reflect(V(1, -1, 0), V(0, 1, 0)) = V(1, 1, 0)

\* incident direction (3, -4, 0) on normal (0, 1, 0), two different draws
C10_Witness ==
    /\ PolishedMetal
    /\ sc_ray.direction = V(3, -4, 0)
    /\ sc_intersect.normal = V(0, 1, 0)
    /\ sc_draws[1].ball # sc_draws[2].ball
    /\ sc_draws[1].ball # V(0, 0, 0)
    /\ sc_result[1].ray.direction = <<(<<3, 5>>), (<<4, 5>>), Zero>>

\* ------------------------------------------- Material::scatter, Dielectric

\* a finished pair of evaluations on a dielectric
GlassHit ==
    /\ sc_pc = "done"
    /\ sc_intersect.material.kind = "Dielectric"

\* the unit vector along the incident direction, and the cosine of the
\* angle of incidence, written out
UnitIncident == VDiv(sc_ray.direction, QSqrt(dot(sc_ray.direction, sc_ray.direction)))
CosIncidence == QMin(QNeg(dot(sc_intersect.normal, UnitIncident)), One)

\* C11 as stated: a Dielectric with index_of_refraction = 1.0 always refracts
\* straight through: for every incident ray, every intersection and every
\* random draw, scatter returns a ray whose direction equals the unit
\* incident direction, never a reflected direction.
C11_StraightThrough ==
    (GlassHit /\ sc_intersect.material.ior = One) =>
        \A k \in 1..2 :
            /\ IsSome(sc_result[k])
            /\ sc_result[k].ray.direction = UnitIncident

\* C11 amended: with index_of_refraction = 1.0 scatter returns a ray from the
\* hit point whose direction is the unit incident direction, unbent, unless
\* the reflectance, which is (1 - cos_theta)^5 for this index, is strictly
\* greater than the uniform draw; then the direction is the mirror image of
\* the unit incident direction.  At normal incidence (cos_theta = 1) the ray
\* goes straight through for every draw.
C11_StraightUnlessReflected ==
    (GlassHit /\ sc_intersect.material.ior = One) =>
        \A k \in 1..2 :
            LET out == sc_result[k]
                reflectance == QPow(QSub(One, CosIncidence), 5)
                reflects == QGt(reflectance, sc_draws[k].uniform)
            IN /\ IsSome(out)
               /\ out.ray.origin = sc_intersect.p
               /\ out.attenuation = sc_intersect.material.color
               /\ ~reflects => out.ray.direction = UnitIncident
               /\ reflects =>
                     /\ out.ray.direction
                           = MirrorImage(UnitIncident, sc_intersect.normal)
                     /\ out.ray.direction # UnitIncident
               /\ CosIncidence = One => out.ray.direction = UnitIncident

\* a slanted hit from inside, index 1.0: straight through with the draw
\* 1/2, but reflected with the draw 0
C11_Witness ==
    /\ GlassHit
    /\ sc_intersect.material.ior = One
    /\ ~sc_intersect.ray_hit_outer_surface
    /\ CosIncidence = <<4, 5>>
    /\ sc_draws[1].uniform = <<1, 2>>
    /\ sc_result[1].ray.direction = UnitIncident
    /\ sc_draws[2].uniform = Zero
    /\ sc_result[2].ray.direction # UnitIncident

\* ------------------------------------- Color::to_pixel, Color::sample_pixel

MaxSamples == 4

\* colour components: negative, zero, inside [0, 1], and above 1
Components ==
    {<<-4, 5>>, <<-1, 100>>, Zero, <<1, 510>>, <<1, 4>>, <<1, 2>>, <<9, 16>>,
     One, <<101, 100>>, <<3, 2>>, <<9, 4>>, I(2), I(4), I(300)}

\* the square roots sample_pixel takes are exact
PixelExact(c, n) ==
    \A k \in 1..3 : c[k][1] < 0 \/ QIsSquare(QDiv(c[k], I(n)))

PixelInit ==
    /\ px_pc = "ready"
    /\ px_color \in {Color(a, b, <<1, 2>>) : a, b \in Components}
                        \cup {Color(a, a, a) : a \in Components}
    /\ px_samples \in 1..MaxSamples
    /\ px_out = <<>>

ToPixel ==
    /\ px_pc = "ready"
    /\ px_pc' = "to_pixel"
    /\ px_out' = to_pixel(px_color)
    /\ UNCHANGED <<px_color, px_samples>>
    /\ UNCHANGED notPixel

SamplePixel ==
    /\ px_pc = "ready"
    /\ PixelExact(px_color, px_samples)
    /\ px_pc' = "sample_pixel"
    /\ px_out' = sample_pixel(px_color, px_samples)
    /\ UNCHANGED <<px_color, px_samples>>
    /\ UNCHANGED notPixel

PixelNext == ToPixel \/ SamplePixel
PixelStart == AggInit /\ TraceIdle /\ ScatterIdle /\ PixelInit /\ RenderIdle /\ BallIdle
PixelSpec == PixelStart /\ [][PixelNext]_vars

\* the byte nearest to 255 * c, halves upwards, for 0 <= c <= 1
Nearest(c) ==
    CHOOSE k \in 0..255 :
        /\ (2 * k - 1) * c[2] <= 2 * 255 * c[1]
        /\ 2 * 255 * c[1] < (2 * k + 1) * c[2]

\* a component above 1.0 gives 255, one below 0 gives 0, one in [0, 1]
\* gives 255 * c rounded to nearest
Saturated(c) ==
    IF c[1] > c[2] THEN 255 ELSE IF c[1] < 0 THEN 0 ELSE Nearest(c)

\* C12 as stated: Color::to_pixel and Color::sample_pixel return bytes in
\* [0, 255] and saturate: a component above 1.0 gives 255, a component below
\* 0 gives 0, and a component c in [0, 1] gives 255 * c rounded to nearest.
C12_BothSaturate ==
    px_pc \in {"to_pixel", "sample_pixel"} =>
        \A k \in 1..3 :
            /\ px_out[k] \in 0..255
            /\ px_out[k] = Saturated(px_color[k])

\* C12 amended: to_pixel converts each component as stated (1.5, -0.8, 0.5
\* give 255, 0, 128).  sample_pixel(n) converts the square root of c / n in
\* that way: a negative c gives 0, c / n above 1 gives 255, and otherwise
\* the byte is the integer nearest to 255 * sqrt(c / n).  All bytes are in
\* [0, 255].
C12_SaturateAfterGamma ==
    /\ px_pc = "to_pixel" =>
          \A k \in 1..3 :
              /\ px_out[k] \in 0..255
              /\ px_out[k] = Saturated(px_color[k])
    /\ (px_pc = "to_pixel" /\ px_color = Color(<<3, 2>>, <<-4, 5>>, <<1, 2>>))
          => px_out = <<255, 0, 128>>
    /\ px_pc = "sample_pixel" =>
          \A k \in 1..3 :
              LET c == px_color[k]
                  b == px_out[k]
                  \* c / n as num / den
                  num == c[1]
                  den == c[2] * px_samples
              IN /\ b \in 0..255
                 /\ num < 0 => b = 0
                 /\ num > den => b = 255
                 /\ (0 <= num /\ num <= den) =>
                       \* b - 1/2 <= 255 * sqrt(num / den) < b + 1/2
                       /\ b = 0 \/ (2 * b - 1) * (2 * b - 1) * den <= 4 * 255 * 255 * num
                       /\ 4 * 255 * 255 * num < (2 * b + 1) * (2 * b + 1) * den

\* sample_pixel on (1/4, 1/4, 1/4) with one sample: the root 1/2 gives 128
C12_Witness ==
    /\ px_pc = "sample_pixel"
    /\ px_color = Color(<<1, 4>>, <<1, 4>>, <<1, 4>>)
    /\ px_samples = 1
    /\ px_out = <<128, 128, 128>>

\* ------------------------------------------------------ Camera::render

\* Camera::compute_ray_color as a function of the scene, the ray, the depth
\* and the values its random source yields (the same at every bounce)
RECURSIVE ray_color(_, _, _, _)
after_scatter(scene, ray_and_color, depth, draws) ==
    IF IsSome(ray_and_color)
    THEN ScatteredColor(ray_and_color.attenuation,
                        ray_color(scene, ray_and_color.ray, RecursionDepth(depth), draws))
    ELSE BLACK
after_hit(scene, intersection, r, depth, draws) ==
    IF IsSome(intersection)
    THEN after_scatter(scene, scatter(intersection.material, r, intersection, draws),
                       depth, draws)
    ELSE BackgroundColor(r)
ray_color(scene, r, depth, draws) ==
    IF DepthExhausted(depth)
    THEN BLACK
    ELSE after_hit(scene, HittableObjectsHit(scene, r, Interval(<<1, 1000>>, INFINITY)),
                   r, depth, draws)

\* the square roots scatter takes on this intersection are exact
scatter_exact(intersect, r) ==
    intersect.material.kind = "Dielectric" =>
        LET ratio == IF intersect.ray_hit_outer_surface
                     THEN QDiv(One, intersect.material.ior)
                     ELSE intersect.material.ior
            u == to_unit_vector(r.direction)
            cos_theta == QMin(dot(intersect.normal, VNeg(u)), One)
            sin2 == QSub(One, QMul(cos_theta, cos_theta))
        IN /\ QIsSquare(sin2)
           /\ \/ QGt(QMul(ratio, QSqrt(sin2)), One)
              \/ QIsSquare(QSub(One, QMul(QMul(ratio, ratio), sin2)))

\* every square root ray_color takes is exact, and no ray has direction zero
RECURSIVE ray_exact(_, _, _, _)
ray_exact_scatter(scene, ray_and_color, depth, draws) ==
    IsSome(ray_and_color) => ray_exact(scene, ray_and_color.ray, depth - 1, draws)
ray_exact_hit(scene, intersection, r, depth, draws) ==
    IsSome(intersection) =>
        /\ scatter_exact(intersection, r)
        /\ ray_exact_scatter(scene, scatter(intersection.material, r, intersection, draws),
                             depth, draws)
ray_exact(scene, r, depth, draws) ==
    depth > 0 =>
        /\ r.direction # V(0, 0, 0)
        /\ QIsSquare(length_squared(r.direction))
        /\ \A k \in 1..Len(scene) :
              QGt(Discriminant(scene[k], r), Zero)
                  => QIsSquare(Discriminant(scene[k], r))
        /\ ray_exact_hit(scene, HittableObjectsHit(scene, r, Interval(<<1, 1000>>, INFINITY)),
                         r, depth, draws)

MaxSamplesPerPixel == 2

\* f64 division, the divisor 0.0 included
fdiv(a, b) ==
    IF b # Zero THEN QDiv(a, b)
    ELSE IF a = Zero THEN NaN
    ELSE IF a[1] > 0 THEN INFINITY ELSE <<-1, 0>>

\* (0..height).rev()
RowsRev_forward(height) == [k \in 1..height |-> k - 1]
RowsRev(height) == [k \in 1..height |-> height - k]

\* impl Sum<&Color> for Color: iter.fold(Color::BLACK, Color::add)
RECURSIVE sum(_)
sum_last(colors) ==
    IF colors = <<>> THEN BLACK
    ELSE colors[Len(colors)]
sum(colors) ==
    IF colors = <<>> THEN BLACK
    ELSE CAdd(sum(SubSeq(colors, 1, Len(colors) - 1)), colors[Len(colors)])

\* <<width, height>> of the images rendered
Resolutions == {<<1, 1>>, <<2, 1>>, <<1, 2>>, <<3, 2>>, <<0, 2>>}

\* a dark matte sphere above the camera rays' origin
Dull == Sphere(V(0, 4, 0), One,
               DiffuseNonMetal(Color(<<1, 8>>, <<1, 8>>, <<1, 8>>)))
RenderScenes == {<<>>, <<Glass, Fuzzy>>, <<Dull>>}

\* rays create_ray returns, and values a worker's random source yields
CameraRays ==
    <<Ray(V(0, 2, 0), V(0, -1, 0)), Ray(V(0, 2, 0), V(0, 1, 0)),
      Ray(V(0, 2, 0), V(3, 4, 0))>>
RenderDraws ==
    <<Draws(V(0, -1, 0), V(0, 0, 0), <<1, 2>>),
      Draws(V(0, 1, 0), <<Zero, (<<3, 4>>), Zero>>, Zero)>>
\* values of rand::thread_rng().gen::<f64>() in Camera::sample_pixel
Jitters == {Zero, <<1, 2>>}

\* what a sample may meet: a ray and draws, by their places in CameraRays
\* and RenderDraws, on which all roots are exact, and what compute_ray_color
\* returns on them
FateOptions(scene, max_depth) ==
    {[ray |-> f.ray, draws |-> f.draws,
      color |-> ray_color(scene, CameraRays[f.ray], max_depth, RenderDraws[f.draws])] :
        f \in {g \in [ray : 1..Len(CameraRays), draws : 1..Len(RenderDraws)] :
                  ray_exact(scene, CameraRays[g.ray], max_depth, RenderDraws[g.draws])}}

\* the colours compute_ray_color returns to the samples of a pixel
SampleColors(fate) == [k \in 1..Len(fate) |-> fate[k].color]

\* the samples of one pixel, such that the roots sample_pixel takes are exact
Fates(scene, samples_per_pixel, max_depth) ==
    {fate \in [1..samples_per_pixel -> FateOptions(scene, max_depth)] :
        PixelExact(sum(SampleColors(fate)), samples_per_pixel)}

RenderConfigs ==
    {[width |-> wh[1], height |-> wh[2], samples_per_pixel |-> n, max_depth |-> MaxDepth] :
        wh \in Resolutions, n \in 1..MaxSamplesPerPixel}

Pending(samples_per_pixel) == [k \in 1..samples_per_pixel |-> <<>>]

RenderInit ==
    /\ objects \in RenderScenes
    /\ hit_called = FALSE
    /\ hit_r = NoQuery
    /\ hit_interval = NoQuery
    /\ hit_result = NoQuery
    /\ hit_trail = <<>>
    /\ since_clear = objects
    /\ cleared = FALSE
    /\ rd_config \in RenderConfigs
    /\ rd_row = 1
    /\ rd_i = 0
    /\ rd_fates = Fates(objects, rd_config.samples_per_pixel, rd_config.max_depth)
    /\ IF rd_config.width * rd_config.height = 0
       THEN /\ rd_pc = "done"
            /\ rd_fate = <<>>
            /\ rd_slots = <<>>
       ELSE /\ rd_pc = "sampling"
            /\ rd_fate \in rd_fates
            /\ rd_slots = Pending(rd_config.samples_per_pixel)
    /\ rd_uv = <<>>
    /\ binary_pixels = <<>>
    /\ rd_written = <<>>

\* a sample_pixel whose hit query takes the first primitive out of the aggregate
camera_sample_pixel_take(k, x, y) ==
    /\ rd_pc = "sampling"
    /\ rd_slots[k] = <<>>
    /\ rd_uv' = <<x, y>>
    /\ rd_slots' = [rd_slots EXCEPT ![k] = rd_fate[k].color]
    /\ objects' = IF objects = <<>> THEN objects ELSE Tail(objects)
    /\ UNCHANGED <<rd_pc, rd_config, rd_row, rd_i, rd_fates, rd_fate,
                   binary_pixels, rd_written>>

\* Camera::sample_pixel, run by the worker of sample k: x and y are the
\* values of its two calls of gen::<f64>()
camera_sample_pixel(k, x, y) ==
    /\ rd_pc = "sampling"
    /\ rd_slots[k] = <<>>
    /\ LET w == QSub(I(rd_config.width), One)
           h == QSub(I(rd_config.height), One)
           j == RowsRev(rd_config.height)[rd_row]
           u == fdiv(QAdd(I(rd_i), x), w)
           v == fdiv(QAdd(I(j), y), h)
       IN rd_uv' = <<u, v>>
    /\ rd_slots' = [rd_slots EXCEPT ![k] = rd_fate[k].color]
    /\ UNCHANGED <<objects, rd_pc, rd_config, rd_row, rd_i, rd_fates, rd_fate,
                   binary_pixels, rd_written>>

\* binary_pixels.push(pixel.0); .push(pixel.1); .push(pixel.2)
push(color, pixel) ==
    /\ binary_pixels' = binary_pixels \o pixel
    /\ rd_written' = Append(rd_written,
                            [i |-> rd_i, j |-> RowsRev(rd_config.height)[rd_row],
                             color |-> color, pixel |-> pixel])

\* the loops go on to the next pixel of the row, to the next row, or end
next_pixel ==
    IF rd_i + 1 < rd_config.width
    THEN /\ rd_i' = rd_i + 1
         /\ UNCHANGED <<rd_row, rd_pc>>
    ELSE IF rd_row < rd_config.height
    THEN /\ rd_i' = 0
         /\ rd_row' = rd_row + 1
         /\ UNCHANGED rd_pc
    ELSE /\ rd_pc' = "done"
         /\ UNCHANGED <<rd_i, rd_row>>

\* the samples are collected: sum, sample_pixel, push, and the next pixel
render_pixel ==
    /\ rd_pc = "sampling"
    /\ \A k \in 1..Len(rd_slots) : rd_slots[k] # <<>>
    /\ push(sum(rd_slots), sample_pixel(sum(rd_slots), rd_config.samples_per_pixel))
    /\ next_pixel
    /\ rd_uv' = <<>>
    /\ IF rd_pc' = "done"
       THEN /\ rd_fate' = <<>>
            /\ rd_slots' = <<>>
       ELSE /\ rd_fate' \in rd_fates
            /\ rd_slots' = Pending(rd_config.samples_per_pixel)
    /\ UNCHANGED <<objects, rd_config, rd_fates>>

RenderSample ==
    (\E k \in 1..Len(rd_slots), x, y \in Jitters : camera_sample_pixel(k, x, y))
        /\ UNCHANGED notRender
RenderPixel == render_pixel /\ UNCHANGED notRender

RenderNext == RenderSample \/ RenderPixel
RenderStart == RenderInit /\ TraceIdle /\ ScatterIdle /\ PixelIdle /\ BallIdle
RenderSpec == RenderStart /\ [][RenderNext]_vars

\* the place of pixel (i, j) in the buffer, counted in bytes
Offset(i, j) == 3 * ((rd_config.height - 1 - j) * rd_config.width + i)

\* C13: Camera::render returns exactly width * height * 3 bytes in row-major
\* order, the rows from j = height - 1 down to 0 and in a row the pixels
\* i = 0 .. width - 1: the three bytes of pixel (i, j) are at offset
\* 3 * ((height - 1 - j) * width + i), and each pixel is pushed straight
\* after the pixel before it in that order.
C13_RowMajorTopDown ==
    /\ Len(binary_pixels) = 3 * Len(rd_written)
    /\ \A k \in 1..Len(rd_written) :
          /\ rd_written[k].i \in 0..(rd_config.width - 1)
          /\ rd_written[k].j \in 0..(rd_config.height - 1)
          /\ Offset(rd_written[k].i, rd_written[k].j) = 3 * (k - 1)
          /\ SubSeq(binary_pixels, 3 * k - 2, 3 * k) = rd_written[k].pixel
    /\ rd_pc = "done" => Len(binary_pixels) = rd_config.width * rd_config.height * 3

C13_Witness ==
    /\ rd_pc = "done"
    /\ rd_config.width = 3
    /\ rd_config.height = 2
    /\ Len(binary_pixels) = 18
    /\ rd_written[2].i = 1
    /\ rd_written[2].j = 1
    /\ rd_written[4].i = 0
    /\ rd_written[4].j = 0
    /\ rd_written[2].pixel # rd_written[4].pixel
    /\ SubSeq(binary_pixels, 10, 12) = rd_written[4].pixel

\* a <= x <= b as f64 comparisons: false when x is NaN
Within(x, a, b) == x # NaN /\ ~QLt(x, a) /\ ~QGt(x, b)

\* C14: every (u, v) that Camera::sample_pixel passes to create_ray lies in
\* the unit square [0, 1] x [0, 1], for every pixel of the image and every
\* jitter in [0, 1).
C14_InUnitSquare ==
    rd_uv # <<>> => Within(rd_uv[1], Zero, One) /\ Within(rd_uv[2], Zero, One)

\* the componentwise total of a sequence of colours, first to last
RECURSIVE TotalTo(_, _, _)
TotalTo(colors, c, n) ==
    IF n = 0 THEN Zero ELSE QAdd(TotalTo(colors, c, n - 1), colors[n][c])
Total(colors) ==
    <<TotalTo(colors, 1, Len(colors)), TotalTo(colors, 2, Len(colors)),
      TotalTo(colors, 3, Len(colors))>>

C16_AggregateUnchanged == [][objects' = objects]_vars

\* an image of a scene of two spheres is finished, two samples per pixel,
\* and samples were scattered by the spheres (a black and a tinted pixel)
C16_Witness ==
    /\ rd_pc = "done"
    /\ objects = <<Glass, Fuzzy>>
    /\ rd_config.samples_per_pixel = 2
    /\ Len(rd_written) = 6
    /\ rd_written[1].pixel = <<0, 0, 0>>
    /\ rd_written[6].color = Color(<<2, 1>>, <<81, 50>>, <<2, 1>>)

\* ------------------------------------------------ root order of Sphere::hit

\* the smaller and the larger of the ray parameters at which the ray
\* crosses the sphere
NearerCrossing(s, r) ==
    CHOOSE t \in Crossings[s, r] : \A u \in Crossings[s, r] : QLe(t, u)
FartherCrossing(s, r) ==
    CHOOSE t \in Crossings[s, r] : \A u \in Crossings[s, r] : QLe(u, t)
StrictlyInside(iv, t) == QLt(iv.min, t) /\ QLt(t, iv.max)

\* C17: with a positive discriminant Sphere::hit tests the nearer root
\* first and returns it when it lies strictly inside (t_min, t_max); only
\* when the nearer root is rejected does it test the farther root, and it
\* returns None when neither lies inside; a root equal to t_min or to
\* t_max is never accepted.
C17_NearerRootFirst ==
    \A i \in Calls :
        LET s == hit_trail[i].object
            iv == hit_trail[i].interval
            h == hit_trail[i].maybe
        IN QGt(DiscriminantOf(s, hit_r), Zero) =>
              /\ Cardinality(Crossings[s, hit_r]) = 2
              /\ IF StrictlyInside(iv, NearerCrossing(s, hit_r))
                 THEN IsSome(h) /\ h.t = NearerCrossing(s, hit_r)
                 ELSE IF StrictlyInside(iv, FartherCrossing(s, hit_r))
                 THEN IsSome(h) /\ h.t = FartherCrossing(s, hit_r)
                 ELSE h = None
              /\ IsSome(h) => h.t # iv.min /\ h.t # iv.max

\* the nearer root equals t_min and is rejected; the farther root is returned
C17_Witness ==
    /\ hit_called
    /\ objects = <<ShapeD>>
    /\ hit_r = Ray(V(-10, 0, 0), V(1, 0, 0))
    /\ hit_interval = Interval(I(5), I(15))
    /\ NearerCrossing(ShapeD, hit_r) = I(5)
    /\ FartherCrossing(ShapeD, hit_r) = I(11)
    /\ IsSome(hit_result)
    /\ hit_result.t = I(11)

\* both roots lie on the ends of the interval and neither is accepted
C17_WitnessBoundary ==
    /\ hit_called
    /\ objects = <<ShapeA>>
    /\ hit_r = Ray(V(-10, 0, 0), V(1, 0, 0))
    /\ hit_interval = Interval(I(5), I(15))
    /\ NearerCrossing(ShapeA, hit_r) = I(5)
    /\ FartherCrossing(ShapeA, hit_r) = I(15)
    /\ hit_result = None

\* ------------------------------------- the scan of HittableObjects::hit

\* the least t among the answers of the first i primitives scanned, or the
\* query's interval.max when none of them answered
BestAfter(i) ==
    LET ts == {hit_trail[k].maybe.t : k \in {m \in 1..i : IsSome(hit_trail[m].maybe)}}
    IN IF ts = {} THEN hit_interval.max
       ELSE CHOOSE t \in ts : \A u \in ts : QLe(t, u)

\* closest_hit when primitive i is queried, and after the last primitive
ClosestHitAt(i) ==
    IF i <= Len(hit_trail) THEN hit_trail[i].interval.max
    ELSE IF IsSome(hit_result) THEN hit_result.t ELSE hit_interval.max

\* C18: during the scan of HittableObjects::hit, closest_hit starts at
\* interval.max and never increases; after each primitive it equals the t
\* of the best intersection kept so far, or interval.max when there is
\* none; each primitive is queried with (interval.min, closest_hit) as
\* they are at that step; and a primitive whose hits are all at or beyond
\* the current best never replaces it.
C18_ShrinkingInterval ==
    hit_called =>
        /\ Len(hit_trail) = Len(objects)
        /\ ClosestHitAt(1) = hit_interval.max
        /\ \A i \in 1..Len(hit_trail) :
              /\ hit_trail[i].object = objects[i]
              /\ hit_trail[i].interval.min = hit_interval.min
              /\ hit_trail[i].interval.max = BestAfter(i - 1)
              /\ QLe(ClosestHitAt(i + 1), ClosestHitAt(i))
              /\ ClosestHitAt(i + 1) = BestAfter(i)
              /\ (\A t \in Crossings[objects[i], hit_r] :
                      QGt(t, hit_interval.min) => QLe(ClosestHitAt(i), t))
                    => /\ ClosestHitAt(i + 1) = ClosestHitAt(i)
                       /\ hit_trail[i].maybe = None
        /\ IsSome(hit_result) <=> \E i \in 1..Len(hit_trail) : IsSome(hit_trail[i].maybe)

\* the second primitive is queried with the first one's t as the end of the
\* interval; its crossings (8 and 18) lie beyond and the first hit is kept
C18_Witness ==
    /\ hit_called
    /\ objects = <<ShapeA, ShapeB>>
    /\ hit_r = Ray(V(-10, 0, 0), V(1, 0, 0))
    /\ hit_interval = Interval(Zero, INFINITY)
    /\ hit_trail[1].interval = Interval(Zero, INFINITY)
    /\ hit_trail[1].maybe.t = I(5)
    /\ hit_trail[2].interval = Interval(Zero, I(5))
    /\ hit_trail[2].maybe = None
    /\ hit_result.t = I(5)
    /\ hit_result.material = ShapeA.material

\* the second primitive is nearer than the first and replaces it
C18_WitnessReplaced ==
    /\ hit_called
    /\ objects = <<ShapeB, ShapeA>>
    /\ hit_r = Ray(V(-10, 0, 0), V(1, 0, 0))
    /\ hit_interval = Interval(Zero, INFINITY)
    /\ hit_trail[2].interval = Interval(Zero, I(8))
    /\ hit_trail[2].maybe.t = I(5)
    /\ hit_result.material = ShapeA.material

\* ------------------------------------------------ Material::scatter, Metal

\* a finished pair of evaluations on a metal
MetalHit ==
    /\ sc_pc = "done"
    /\ sc_intersect.material.kind = "Metal"

\* reflect(unit incident, normal) + fuzz * (point of the unit ball), for
\* the k-th evaluation, written out
FuzzedMirror(k) ==
    LET m == MirrorImage(UnitIncident, sc_intersect.normal)
        f == sc_intersect.material.fuzz
        b == sc_draws[k].ball
    IN <<QAdd(m[1], QMul(f, b[1])), QAdd(m[2], QMul(f, b[2])), QAdd(m[3], QMul(f, b[3]))>>
AlongNormal(k) ==
    QAdd(QAdd(QMul(FuzzedMirror(k)[1], sc_intersect.normal[1]),
              QMul(FuzzedMirror(k)[2], sc_intersect.normal[2])),
         QMul(FuzzedMirror(k)[3], sc_intersect.normal[3]))

\* C19: Metal scatter returns Some(ray from the hit point, albedo) exactly
\* when reflect(unit incident, normal) + fuzz * (ball point) has a strictly
\* positive dot product with the surface normal, and None (the ray is
\* absorbed) when the dot product is zero or negative.
C19_MetalAbsorbsAtOrBelowSurface ==
    MetalHit =>
        \A k \in 1..2 :
            /\ AlongNormal(k)[1] > 0 =>
                  sc_result[k] = Some(Ray(sc_intersect.p, FuzzedMirror(k)),
                                      sc_intersect.material.color)
            /\ AlongNormal(k)[1] <= 0 => sc_result[k] = None

\* one hit, two draws: the fuzzed direction lies in the surface (dot = 0)
\* with one and points out of it with the other
C19_Witness ==
    /\ MetalHit
    /\ sc_intersect.material.fuzz = <<4, 3>>
    /\ AlongNormal(1) = Zero
    /\ sc_result[1] = None
    /\ QGt(AlongNormal(2), Zero)
    /\ IsSome(sc_result[2])
    /\ sc_result[2].ray.direction # MirrorImage(UnitIncident, sc_intersect.normal)

\* the fuzzed direction points into the surface
C19_WitnessBelow ==
    /\ MetalHit
    /\ sc_intersect.material.fuzz = I(2)
    /\ QLt(AlongNormal(1), Zero)
    /\ sc_result[1] = None

\* ------------------------------- Material::scatter, Dielectric: the branch

\* the ratio of indices at the hit: 1/ior on the front face, ior on the back
RatioAtHit ==
    IF sc_intersect.ray_hit_outer_surface
    THEN <<sc_intersect.material.ior[2], sc_intersect.material.ior[1]>>
    ELSE sc_intersect.material.ior

\* ratio * sin_theta > 1.0, as ratio^2 * (1 - cos_theta^2) > 1
TotalInternal ==
    QGt(QMul(QMul(RatioAtHit, RatioAtHit), QSub(One, QMul(CosIncidence, CosIncidence))),
        One)

\* r0 + (1 - r0)(1 - cos_theta)^5 with r0 = ((1 - ratio)/(1 + ratio))^2
Schlick ==
    LET r0 == QMul(QDiv(QSub(One, RatioAtHit), QAdd(One, RatioAtHit)),
                   QDiv(QSub(One, RatioAtHit), QAdd(One, RatioAtHit)))
        k == QSub(One, CosIncidence)
    IN QAdd(r0, QMul(QSub(One, r0), QMul(k, QMul(k, QMul(k, QMul(k, k))))))

\* the part of d in the plane of normal n
Tangential(d, n) ==
    LET k == QAdd(QAdd(QMul(d[1], n[1]), QMul(d[2], n[2])), QMul(d[3], n[3]))
    IN <<QSub(d[1], QMul(k, n[1])), QSub(d[2], QMul(k, n[2])), QSub(d[3], QMul(k, n[3]))>>

\* d is the direction Snell's law gives the unit incident direction: a unit
\* vector going through the surface whose tangential part is ratio times
\* the incident one
IsRefracted(d) ==
    /\ Tangential(d, sc_intersect.normal)
          = LET t == Tangential(UnitIncident, sc_intersect.normal)
            IN <<QMul(RatioAtHit, t[1]), QMul(RatioAtHit, t[2]), QMul(RatioAtHit, t[3])>>
    /\ QAdd(QAdd(QMul(d[1], d[1]), QMul(d[2], d[2])), QMul(d[3], d[3])) = One
    /\ QAdd(QAdd(QMul(d[1], sc_intersect.normal[1]), QMul(d[2], sc_intersect.normal[2])),
            QMul(d[3], sc_intersect.normal[3]))[1] <= 0

\* C20: Dielectric scatter uses refraction_ratio = 1/ior on a front-face
\* hit and ior on a back-face hit; it reflects whenever
\* refraction_ratio * sin_theta > 1.0, whatever the random draw; otherwise
\* it reflects exactly when the Schlick reflectance r0 + (1 - r0)(1 - cos)^5
\* is greater than the uniform draw, and refracts otherwise; it always
\* returns Some, with the material's attenuation.
C20_ReflectOrRefract ==
    GlassHit =>
        \A k \in 1..2 :
            LET out == sc_result[k]
                reflects == TotalInternal \/ QGt(Schlick, sc_draws[k].uniform)
            IN /\ IsSome(out)
               /\ out.attenuation = sc_intersect.material.color
               /\ out.ray.origin = sc_intersect.p
               /\ reflects =>
                     out.ray.direction = MirrorImage(UnitIncident, sc_intersect.normal)
               /\ ~reflects => IsRefracted(out.ray.direction)

\* a back-face hit at sin_theta = 4/5 with ior 4/3: the ratio is 4/3, not
\* 3/4, ratio * sin_theta = 16/15 > 1, and the ray is reflected with a draw
\* that the reflectance of a front-face hit would not exceed
C20_Witness ==
    /\ GlassHit
    /\ sc_intersect.material.ior = <<4, 3>>
    /\ ~sc_intersect.ray_hit_outer_surface
    /\ CosIncidence = <<3, 5>>
    /\ TotalInternal
    /\ sc_draws[1].uniform = <<1, 2>>
    /\ sc_result[1].ray.direction = MirrorImage(UnitIncident, sc_intersect.normal)
    /\ sc_result[1].attenuation = Tint

\* a front-face hit with ior 4/3: reflected with the draw 0, refracted and
\* bent with the draw 1/2
C20_WitnessDraw ==
    /\ GlassHit
    /\ sc_intersect.material.ior = <<4, 3>>
    /\ sc_intersect.ray_hit_outer_surface
    /\ ~TotalInternal
    /\ CosIncidence # One
    /\ sc_draws[1].uniform = Zero
    /\ sc_result[1].ray.direction = MirrorImage(UnitIncident, sc_intersect.normal)
    /\ sc_draws[2].uniform = <<1, 2>>
    /\ IsRefracted(sc_result[2].ray.direction)
    /\ sc_result[2].ray.direction # UnitIncident

\* ------------------------------------- the interval of the evaluator's query

\* C21: every closest-hit query issued by the transport evaluator uses the
\* interval (epsilon, +infinity) with a strictly positive epsilon (1e-3),
\* so an intersection at a ray parameter t <= epsilon is never returned as
\* the hit of a bounce.
C21_PositiveEpsilon ==
    tr_hits > 0 =>
        /\ tr_eps = <<1, 1000>>
        /\ IsSome(tr_hit) => QGt(tr_hit.t, <<1, 1000>>)

\* the evaluator that asks in (0, inf) returns the hit at t = 1/2000
C21_HitBelowEpsilon ==
    /\ tr_eps = Zero
    /\ tr_ray0 = LongRay
    /\ tr_hits = 1
    /\ IsSome(tr_hit)
    /\ tr_hit.t = <<1, 2000>>
    /\ tr_hit.ray_hit_outer_surface

\* the evaluator that asks in (1e-3, inf) passes over it and returns the
\* farther root, 3/2000
C21_HitBeyondEpsilon ==
    /\ tr_eps = <<1, 1000>>
    /\ tr_ray0 = LongRay
    /\ tr_hits = 1
    /\ IsSome(tr_hit)
    /\ tr_hit.t = <<3, 2000>>
    /\ ~tr_hit.ray_hit_outer_surface

\* ------------------------------------- geom.rs: random_point_in_unit_sphere

\* values of rng.gen::<f64>(), which lie in [0, 1)
GenValues ==
    {Zero, <<1, 4>>, <<1, 2>>, <<3, 5>>, <<3, 4>>, <<4, 5>>, <<99, 100>>}

BallInit ==
    /\ rp_pc = "loop"
    /\ rp_v = <<>>

\* one turn of the loop: x, y and z are drawn and v is built; v is returned
\* unless v.length_squared() >= 1.0, and then the loop goes on
random_point_in_unit_sphere(x, y, z) ==
    /\ rp_pc = "loop"
    /\ LET v == <<x, y, z>>
       IN /\ rp_v' = v
          /\ rp_pc' = IF QLe(One, length_squared(v)) THEN "loop" ELSE "returned"

\* the caller uses the value and calls again
call_again ==
    /\ rp_pc = "returned"
    /\ rp_pc' = "loop"
    /\ rp_v' = <<>>

RandomPoint ==
    (\E x, y, z \in GenValues : random_point_in_unit_sphere(x, y, z))
        /\ UNCHANGED notBall
CallAgain == call_again /\ UNCHANGED notBall

BallNext == RandomPoint \/ CallAgain
BallStart == AggInit /\ TraceIdle /\ ScatterIdle /\ PixelIdle /\ RenderIdle /\ BallInit
BallSpec == BallStart /\ [][BallNext]_vars

\* vectors of the solid unit ball in all eight octants: the components are
\* the values above and their negatives
Signed == GenValues \cup {QNeg(a) : a \in GenValues}
BallPoints ==
    {v \in Signed \X Signed \X Signed :
        QLt(QAdd(QAdd(QMul(v[1], v[1]), QMul(v[2], v[2])), QMul(v[3], v[3])), One)}

\* a call in its loop can return v on this turn
CanReturn(v) ==
    \E x, y, z \in GenValues :
        /\ <<x, y, z>> = v
        /\ ~QLe(One, length_squared(<<x, y, z>>))

\* C22: random_point_in_unit_sphere samples the solid unit ball: every value
\* it returns has squared length strictly less than 1, and every vector of
\* the solid unit ball, in every octant (vectors with negative x, y or z
\* included), is a possible return value.
C22_SolidBall ==
    /\ rp_pc = "returned" =>
          QLt(QAdd(QAdd(QMul(rp_v[1], rp_v[1]), QMul(rp_v[2], rp_v[2])),
                   QMul(rp_v[3], rp_v[3])), One)
    /\ rp_pc = "loop" => \A v \in BallPoints : CanReturn(v)

\* what holds instead: a returned value has squared length below 1 and no
\* negative component, and every such vector can be returned
C22_PositiveOctantOnly ==
    /\ rp_pc = "returned" =>
          /\ QLt(QAdd(QAdd(QMul(rp_v[1], rp_v[1]), QMul(rp_v[2], rp_v[2])),
                      QMul(rp_v[3], rp_v[3])), One)
          /\ \A k \in 1..3 : rp_v[k][1] >= 0
    /\ rp_pc = "loop" =>
          \A v \in BallPoints : CanReturn(v) <=> \A k \in 1..3 : v[k][1] >= 0

\* a vector of squared length exactly 1 was built and the loop went on
C22_RejectedOnSurface ==
    /\ rp_pc = "loop"
    /\ rp_v = <<(<<3, 5>>), (<<4, 5>>), Zero>>

\* ------------------------- HittableObjects: add, clear and what hit scans

\* C23: after any sequence of add and clear, objects holds exactly the
\* primitives added since the last clear, in the order they were added;
\* HittableObjects::hit scans exactly those, and an intersection it returns
\* is a crossing of one of them; on an aggregate that was just cleared or
\* newly constructed it returns None for every ray and interval.
C23_AddedSinceClear ==
    /\ objects = since_clear
    /\ hit_called =>
        /\ [i \in 1..Len(hit_trail) |-> hit_trail[i].object] = since_clear
        /\ IsSome(hit_result) =>
              \E i \in 1..Len(since_clear) :
                  /\ hit_result.t \in Crossings[since_clear[i], hit_r]
                  /\ hit_result.material = since_clear[i].material
        /\ since_clear = <<>> => hit_result = None

\* two primitives added, cleared, two others added in the order B, A: the
\* query scans B then A and returns A's crossing at t = 5
C23_Witness ==
    /\ cleared
    /\ hit_called
    /\ objects = <<ShapeB, ShapeA>>
    /\ hit_r = Ray(V(-10, 0, 0), V(1, 0, 0))
    /\ hit_interval = Interval(Zero, INFINITY)
    /\ hit_trail[1].object = ShapeB
    /\ hit_trail[2].object = ShapeA
    /\ hit_result.t = I(5)

\* a query right after clear emptied the aggregate: nothing is scanned
C23_WitnessCleared ==
    /\ cleared
    /\ hit_called
    /\ objects = <<>>
    /\ hit_r = Ray(V(-10, 0, 0), V(1, 0, 0))
    /\ hit_interval = Interval(Zero, INFINITY)
    /\ hit_trail = <<>>
    /\ hit_result = None

\* ------------------------------ Sphere::hit: which root, which face

\* (point - center) / radius at ray parameter t, dotted with the direction
AlongOutward(s, r, t) ==
    dot(r.direction, VScale(QDiv(One, s.radius), VSub(at(r, t), s.center)))
RootOfD(s, r) == QSqrt(DiscriminantOf(s, r))

\* C24: for a sphere of positive radius, the front-face flag of the
\* Intersection Sphere::hit returns is true exactly when the accepted root
\* is the nearer one and false exactly when it is the farther one; the dot
\* product of the ray direction with the unflipped normal is then
\* -sqrt(D)/radius and +sqrt(D)/radius respectively, and it is never zero.
C24_FrontFaceIsNearerRoot ==
    \A i \in Returned :
        LET s == hit_trail[i].object
            h == hit_trail[i].maybe
            along == AlongOutward(s, hit_r, h.t)
        IN QGt(s.radius, Zero) =>
              /\ h.ray_hit_outer_surface <=> h.t = NearerCrossing(s, hit_r)
              /\ ~h.ray_hit_outer_surface <=> h.t = FartherCrossing(s, hit_r)
              /\ h.t = NearerCrossing(s, hit_r) =>
                    along = QNeg(QDiv(RootOfD(s, hit_r), s.radius))
              /\ h.t = FartherCrossing(s, hit_r) =>
                    along = QDiv(RootOfD(s, hit_r), s.radius)
              /\ along # Zero

\* oblique incidence from outside: D = 16, the nearer root 6 is accepted,
\* front face, and the dot product is -4/5
C24_Witness ==
    /\ hit_called
    /\ objects = <<ShapeA>>
    /\ hit_r = Ray(V(-10, 3, 0), V(1, 0, 0))
    /\ hit_interval = Interval(Zero, INFINITY)
    /\ DiscriminantOf(ShapeA, hit_r) = I(16)
    /\ hit_trail[1].maybe.t = I(6)
    /\ hit_trail[1].maybe.t = NearerCrossing(ShapeA, hit_r)
    /\ hit_trail[1].maybe.ray_hit_outer_surface
    /\ AlongOutward(ShapeA, hit_r, I(6)) = <<-4, 5>>

\* the same ray with the nearer root below t_min: the farther root 14 is
\* accepted, back face, and the dot product is +4/5
C24_WitnessFarther ==
    /\ hit_called
    /\ objects = <<ShapeA>>
    /\ hit_r = Ray(V(-10, 3, 0), V(1, 0, 0))
    /\ hit_interval = Interval(I(6), I(20))
    /\ hit_trail[1].maybe.t = I(14)
    /\ hit_trail[1].maybe.t = FartherCrossing(ShapeA, hit_r)
    /\ ~hit_trail[1].maybe.ray_hit_outer_surface
    /\ AlongOutward(ShapeA, hit_r, I(14)) = <<4, 5>>

\* a sphere of negative radius: the nearer root is accepted and the flag
\* is false
C24_NegativeRadius ==
    /\ hit_called
    /\ objects = <<ShapeE>>
    /\ hit_r = Ray(V(-10, 0, 0), V(1, 0, 0))
    /\ hit_interval = Interval(Zero, INFINITY)
    /\ hit_trail[1].maybe.t = NearerCrossing(ShapeE, hit_r)
    /\ ~hit_trail[1].maybe.ray_hit_outer_surface

====
